---- MODULE Spec2Model ----
(***************************************************************************)
(* A model of classes/molecular.py: the functional group registry          *)
(* (FGInfo), structural units (StructUnit, BuildingBlock, Linker), the     *)
(* caching metaclass (Cached) and the assembled molecule (Cage).           *)
(*                                                                         *)
(* Python strings are sequences of one-character strings, so that the      *)
(* substring test `x.name in prist_mol_file` and os.path.splitext are      *)
(* computed, not assumed.  Atom ids are 1-based here (rdkit's id i is      *)
(* position i+1).  Fitness values are integers in units of                 *)
(* 1/FitnessScale.                                                         *)
(***************************************************************************)
EXTENDS Integers, Sequences, FiniteSets, TLC

VARIABLES
    fs,        \* the files on disk that can be read: name -> contents
    written,   \* the files MolToMolFile has written: name -> molecule
    units,     \* the StructUnit objects: id -> attributes
    cages,     \* the live Cage objects: id -> attributes
    cache,     \* Cage's cache (Cached.__cache): args -> id of a Cage
    cacheWeak, \* TRUE while the cache is a WeakValueDictionary
    saved,     \* the test harness's copy of the cache (og_c), << >> if none
    resetAt,   \* 0, or between the harness's reset and its restore the
               \* number of the first allocating call after the reset
    refs,      \* ids of the objects the caller holds a reference to
    collected, \* the Cage objects that were garbage collected: id -> args
    nextId,    \* the number of the next call that allocates objects
    calls,     \* the calls of Cage(*args) that are under way in Cached.__call__:
               \* for each caller the line it is at, its args and its obj
    results,   \* what the calls of shift_heavy_mol and get_heavy_coords
               \* returned, in order: the caller still holds every one
    last       \* the outcome of the most recent operation

vars == <<fs, written, units, cages, cache, cacheWeak, saved, resetAt, refs,
          collected, nextId, calls, results, last>>

-----------------------------------------------------------------------------
(* Bounds of the model. *)

MaxObj == 2

MaxAtoms == 3

MaxMatches == 2

MaxMatchLen == 1

MaxParts == 2

\* Calls of shift_heavy_mol and get_heavy_coords on the units of a run
MaxCalls == 2

\* Largest offset, besides the docstring's 10, that a shift is called with
MaxShift == 1

FitnessScale == 1

-----------------------------------------------------------------------------
(* Strings. *)

RECURSIVE Join(_, _)
\* sep.join(parts)
Join(sep, parts) ==
    IF Len(parts) = 0 THEN << >>
    ELSE IF Len(parts) = 1 THEN parts[1]
    ELSE parts[1] \o sep \o Join(sep, Tail(parts))

\* `sub in s` for Python strings
IsSubstring(sub, s) ==
    \E i \in 0..(Len(s) - Len(sub)) :
        \A j \in 1..Len(sub) : s[i + j] = sub[j]

\* str.rfind(c) + 1: the last position of c in s, 0 if there is none
RFind(s, c) ==
    IF \E i \in 1..Len(s) : s[i] = c
    THEN CHOOSE i \in 1..Len(s) :
            /\ s[i] = c
            /\ \A j \in (i + 1)..Len(s) : s[j] # c
    ELSE 0

\* os.path.splitext(p): <<root, ext>>; ext starts at the last dot of the last
\* path component, unless that component has only leading dots before it
SplitExt(p) ==
    LET sepIndex == RFind(p, "/")
        dotIndex == RFind(p, ".")
    IN  IF /\ dotIndex > sepIndex
           /\ \E k \in (sepIndex + 1)..(dotIndex - 1) : p[k] # "."
        THEN <<SubSeq(p, 1, dotIndex - 1), SubSeq(p, dotIndex, Len(p))>>
        ELSE <<p, << >> >>

\* list.insert(1, x) on a two-element list
Insert1(lst, x) == <<lst[1], x>> \o Tail(lst)

\* list.insert(2, x) on a three-element list
Insert2(lst, x) == <<lst[1], lst[2], x>> \o Tail(Tail(lst))

-----------------------------------------------------------------------------
(* FGInfo and its registry. *)

FGInfo(name, smarts, target_atomic_num, heavy_atomic_num, target_symbol, heavy_symbol) ==
    [name |-> name, smarts |-> smarts,
     target_atomic_num |-> target_atomic_num,
     heavy_atomic_num |-> heavy_atomic_num,
     target_symbol |-> target_symbol, heavy_symbol |-> heavy_symbol]

functional_group_list == <<
    FGInfo(<<"a","l","d","e","h","y","d","e">>, "C(=O)[H]", 6, 39, "C", "Y"),
    FGInfo(<<"c","a","r","b","o","x","y","l","i","c"," ","a","c","i","d">>,
           "C(=O)O[H]", 6, 40, "C", "Zr"),
    FGInfo(<<"a","m","i","d","e">>, "C(=O)N([H])[H]", 6, 41, "C", "Nb"),
    FGInfo(<<"t","h","i","o","a","c","i","d">>, "C(=O)S[H]", 6, 42, "C", "Mo"),
    FGInfo(<<"a","l","c","o","h","o","l">>, "O[H]", 8, 43, "O", "Tc"),
    FGInfo(<<"t","h","i","o","l">>, "[S][H]", 16, 44, "S", "Ru"),
    FGInfo(<<"a","m","i","n","e">>, "[N]([H])[H]", 7, 45, "N", "Rh"),
    FGInfo(<<"n","i","t","r","o","s","o">>, "N=O", 7, 46, "N", "Pd"),
    FGInfo(<<"b","o","r","o","n","i","c"," ","a","c","i","d">>,
           "[B](O[H])O[H]", 5, 47, "B", "Ag") >>

double_bond_combs == << <<"Rh", "Y">>, <<"Nb", "Y">>, <<"Mb", "Rh">> >>

\* None, as the value of func_grp: index 0 of the registry
NoGroup == 0

\* next((x for x in FGInfo.functional_group_list
\*       if x.name in prist_mol_file), None), as an index into the registry
FindFuncGrpLast(prist_mol_file) ==
    LET hits == {i \in 1..Len(functional_group_list) :
                    IsSubstring(functional_group_list[i].name, prist_mol_file)}
    IN  IF hits = {} THEN NoGroup
        ELSE CHOOSE i \in hits : \A j \in hits : j <= i

FindFuncGrp(prist_mol_file) ==
    LET hits == {i \in 1..Len(functional_group_list) :
                    IsSubstring(functional_group_list[i].name, prist_mol_file)}
    IN  IF hits = {} THEN NoGroup
        ELSE CHOOSE i \in hits : \A j \in hits : i <= j

-----------------------------------------------------------------------------
(* Molecules (rdkit.Chem.rdchem.Mol): the atomic number of every atom, the *)
(* bonds as pairs of atom ids, and the one conformer's coordinates.        *)

Mol(atoms, bonds, coords) ==
    [atoms |-> atoms, bonds |-> bonds, coords |-> coords]

\* What a file holds: whether MolFromMolFile can parse it, the molecule it
\* then gives, and what GetSubstructMatches gives on that molecule for the
\* pattern of the file's functional group (a tuple of tuples of atom ids)
FileContents(parses, mol, matches) ==
    [parses |-> parses, mol |-> mol, matches |-> matches]

\* chem.MolToSmiles(mol, isomericSmiles=True, allHsExplicit=True): a string
\* that depends on the atoms and the bonds and not on the coordinates
MolToSmiles(mol) == [atoms |-> mol.atoms, bonds |-> mol.bonds]

RECURSIVE flatten(_)
\* flatten(tuple of tuples): the atom ids, in order
flatten(matches) ==
    IF Len(matches) = 0 THEN << >>
    ELSE Head(matches) \o flatten(Tail(matches))

RECURSIVE SubstituteAll(_, _, _)
SubstituteAll(atoms, ids, func_grp) ==
    IF Len(ids) = 0 THEN atoms
    ELSE SubstituteAll(
            [atoms EXCEPT ![Head(ids)] = func_grp.heavy_atomic_num],
            Tail(ids), func_grp)

RECURSIVE SubstituteAtoms(_, _, _)
\* for atom_id in func_grp_atom_ids: ... SetAtomicNum(heavy_atomic_num)
SubstituteAtoms(atoms, ids, func_grp) ==
    IF Len(ids) = 0 THEN atoms
    ELSE IF atoms[Head(ids)] = func_grp.target_atomic_num
    THEN SubstituteAtoms(
            [atoms EXCEPT ![Head(ids)] = func_grp.heavy_atomic_num],
            Tail(ids), func_grp)
    ELSE SubstituteAtoms(atoms, Tail(ids), func_grp)

\* The name of the substituted file: root_HEAVY_name_ext
HeavyFileName(prist_mol_file, func_grp) ==
    Join(<<"_">>,
         Insert2(Insert1(SplitExt(prist_mol_file), <<"H","E","A","V","Y">>),
                 func_grp.name))

NoMol == Mol(<< >>, {}, << >>)

NoUnit ==
    [cls |-> "", prist_mol_file |-> << >>, prist_mol |-> NoMol,
     prist_smiles |-> MolToSmiles(NoMol), func_grp |-> NoGroup,
     heavy_mol |-> NoMol, heavy_mol_file |-> << >>,
     heavy_smiles |-> MolToSmiles(NoMol)]

\* The outcome of a construction that ends with the exception err
Raise(err) ==
    [err |-> err, func_grp |-> NoGroup, unit |-> NoUnit, out |-> << >>]

\* StructUnit.find_functional_group_atoms: what GetSubstructMatches gives
\* for the pattern self.func_grp.smarts on prist_mol
find_functional_group_atoms(self, matches) == matches

\* The end of _generate_heavy_attrs: the attributes are set and the
\* substituted molecule is written to its file
SetHeavyAttrs(self, heavy_mol, heavy_mol_file) ==
    [err |-> "none", func_grp |-> self.func_grp,
     unit |-> [self EXCEPT !.heavy_mol = heavy_mol,
                           !.heavy_mol_file = heavy_mol_file,
                           !.heavy_smiles = MolToSmiles(heavy_mol)],
     out |-> (heavy_mol_file :> heavy_mol)]

\* StructUnit._generate_heavy_attrs, for the group fg = self.func_grp
SubstituteGroup(self, matches, fg) ==
    SetHeavyAttrs(
        self,
        [self.prist_mol EXCEPT
            !.atoms = SubstituteAtoms(
                        self.prist_mol.atoms,
                        flatten(find_functional_group_atoms(self, matches)),
                        fg)],
        HeavyFileName(self.prist_mol_file, fg))

\* StructUnit._generate_heavy_attrs
generate_heavy_attrs(self, matches) ==
    IF self.func_grp = NoGroup
    THEN \* self.func_grp.smarts, with func_grp None
         Raise("AttributeError")
    ELSE SubstituteGroup(self, matches, functional_group_list[self.func_grp])

\* StructUnit.__init__ once the file is read
InitFrom(cls, prist_mol_file, contents) ==
    generate_heavy_attrs(
        [NoUnit EXCEPT !.cls = cls,
                       !.prist_mol_file = prist_mol_file,
                       !.prist_mol = contents.mol,
                       !.prist_smiles = MolToSmiles(contents.mol),
                       !.func_grp = FindFuncGrp(prist_mol_file)],
        contents.matches)

\* StructUnit.__init__ on the files `files`:
\*   err      "none", or the exception that ends the construction
\*   func_grp what line 320 resolved (NoGroup if it was not reached)
\*   unit     the attributes of the new object when err = "none"
\*   out      the files written
StructUnitInit(cls, prist_mol_file, files) ==
    IF prist_mol_file \notin DOMAIN files
    THEN Raise("ParseError")
    ELSE IF ~files[prist_mol_file].parses
    THEN \* MolFromMolFile gives None and MolToSmiles(None) raises
         Raise("ParseError")
    ELSE InitFrom(cls, prist_mol_file, files[prist_mol_file])

\* f with the entries of g added, g's entry winning (writing files)
Overwrite(f, g) == g @@ f

-----------------------------------------------------------------------------
(* Python values held in the attributes of a Cage. *)

\* a str, compared by value
Str(s) == [t |-> "str", s |-> s, id |-> 0]

\* a reference to a StructUnit, which defines no __eq__: compared by identity
Obj(i) == [t |-> "obj", s |-> << >>, id |-> i]

\* the instance topology(self) of the class named cls, made for Cage `owner`
Topo(cls, owner) == [t |-> "topo", s |-> cls, id |-> owner]

\* a number (a fitness value, in units of 1/FitnessScale)
Num(v) == [t |-> "num", s |-> << >>, id |-> v]

\* an attribute that was never assigned
Unset == [t |-> "unset", s |-> << >>, id |-> 0]

\* x == y for these values
PyEq(x, y) == x = y

NoCage ==
    [args |-> << >>, bb |-> Unset, lk |-> Unset, topology |-> Unset,
     fitness |-> Unset, prist_mol_file |-> Unset, heavy_mol_file |-> Unset]

\* Cage.testing_init(bb_str, lk_str, topology_str)
testing_init(self, bb_str, lk_str, topology_str) ==
    [self EXCEPT !.bb = Str(bb_str), !.lk = Str(lk_str),
                 !.topology = Str(topology_str)]

\* The name Cage.std_init derives for the substituted file: root_HEAVY_ext
CageHeavyFileName(prist_mol_file) ==
    Join(<<"_">>, Insert1(SplitExt(prist_mol_file), <<"H","E","A","V","Y">>))

\* The id of the k-th object that the n-th allocating call makes: object 0
\* is the one the call returns, objects 1 and 2 are the BuildingBlock and the
\* Linker that Cage.std_init makes
ObjId(n, k) == 3 * n + k

\* Cage.std_init once the BuildingBlock and the Linker were attempted, with
\* outcomes bb and lk
StdInitWith(self, n, bb, lk, topology, prist_mol_file, build_ok) ==
    IF bb.err # "none"
    THEN [err |-> bb.err, cage |-> NoCage, made |-> << >>, out |-> bb.out]
    ELSE IF lk.err # "none"
    THEN [err |-> lk.err, cage |-> NoCage, made |-> << >>,
          out |-> Overwrite(bb.out, lk.out)]
    ELSE IF ~build_ok
    THEN [err |-> "AssemblyError", cage |-> NoCage, made |-> << >>,
          out |-> Overwrite(bb.out, lk.out)]
    ELSE [err |-> "none",
          cage |-> [self EXCEPT
                      !.bb = Obj(ObjId(n, 1)), !.lk = Obj(ObjId(n, 2)),
                      !.topology = Topo(topology, ObjId(n, 0)),
                      !.prist_mol_file = Str(prist_mol_file),
                      !.heavy_mol_file =
                          Str(CageHeavyFileName(prist_mol_file))],
          made |-> (ObjId(n, 1) :> bb.unit) @@ (ObjId(n, 2) :> lk.unit),
          out |-> Overwrite(bb.out, lk.out)]

\* Cage.std_init(bb_file, lk_file, topology, prist_mol_file) in call n.
\* build_ok is whether the topology's build_cage() returns normally.
std_init(self, n, bb_file, lk_file, topology, prist_mol_file, files, build_ok) ==
    StdInitWith(self, n,
                StructUnitInit("BuildingBlock", bb_file, files),
                StructUnitInit("Linker", lk_file, files),
                topology, prist_mol_file, build_ok)

\* Cage.__init__(*args) for the new object of call n
CageInit(n, args, files, build_ok) ==
    IF Len(args) = 3
    THEN [err |-> "none",
          cage |-> testing_init([NoCage EXCEPT !.args = args],
                                args[1], args[2], args[3]),
          made |-> << >>, out |-> << >>]
    ELSE IF Len(args) = 4
    THEN std_init([NoCage EXCEPT !.args = args], n, args[1], args[2],
                  args[3], args[4], files, build_ok)
    ELSE [err |-> "none", cage |-> [NoCage EXCEPT !.args = args],
          made |-> << >>, out |-> << >>]

Range(f) == {f[k] : k \in DOMAIN f}

\* The objects something other than a weak reference refers to: the
\* caller, a cache that is a plain dict, the harness's copy of the cache,
\* the local variable obj of a call that is under way
Reachable(o) ==
    \/ o \in refs
    \/ ~cacheWeak /\ o \in Range(cache)
    \/ o \in Range(saved)
    \/ \E c \in DOMAIN calls : calls[c].line = 32 /\ calls[c].obj = o

\* The record of an operation's outcome
Outcome(op, args, obj, err) ==
    [op |-> op, args |-> args, obj |-> obj, err |-> err, a |-> 0, b |-> 0,
     opr |-> "", val |-> FALSE, func_grp |-> NoGroup, hit |-> FALSE]

-----------------------------------------------------------------------------
(* The cache of the metaclass Cached. *)

NewCache == << >>

\* args in self.__cache.keys()
CacheHas(c, args) == args \in DOMAIN c

\* self.__cache[args] = obj
CacheSet(c, args, obj) == (args :> obj) @@ c

EvictNothing(c, o) == c

\* What the WeakValueDictionary does when the object o is collected: the
\* entries whose value is o disappear
Evict(c, o) == [k \in {x \in DOMAIN c : c[x] # o} |-> c[k]]

\* The heap, the cache and the disk as a call leaves them, with the object
\* it returns (or the exception it raises)
After(err, obj, hit, cages_, units_, cache_, nextId_, written_) ==
    [err |-> err, obj |-> obj, hit |-> hit, cages |-> cages_,
     units |-> units_, cache |-> cache_, nextId |-> nextId_,
     written |-> written_]

\* The else branch of Cached.__call__, r being the outcome of
\* super().__call__(*args) for the new object with id obj
CacheMissStoreFirst(args, obj, r) ==
    IF r.err # "none"
    THEN After(r.err, 0, FALSE, cages, units, CacheSet(cache, args, obj),
               nextId + 1, Overwrite(written, r.out))
    ELSE After("none", obj, FALSE, (obj :> r.cage) @@ cages,
               r.made @@ units, CacheSet(cache, args, obj), nextId + 1,
               Overwrite(written, r.out))

CacheMiss(args, obj, r) ==
    IF r.err # "none"
    THEN After(r.err, 0, FALSE, cages, units, cache, nextId,
               Overwrite(written, r.out))
    ELSE After("none", obj, FALSE, (obj :> r.cage) @@ cages,
               r.made @@ units, CacheSet(cache, args, obj), nextId + 1,
               Overwrite(written, r.out))

\* Cached.__call__ if a hit ran __init__ on the cached object again, r being
\* the outcome of that run
HitRunsInit(args, r) ==
    After(r.err, cache[args], TRUE,
          (cache[args] :> [r.cage EXCEPT
                              !.fitness = cages[cache[args]].fitness])
              @@ cages,
          r.made @@ units, cache, nextId + 1, Overwrite(written, r.out))

CachedCallRunsInit(args, build_ok) ==
    IF CacheHas(cache, args)
    THEN HitRunsInit(args, CageInit(nextId, args, fs, TRUE))
    ELSE CacheMiss(args, ObjId(nextId, 0),
                   CageInit(nextId, args, fs, build_ok))

\* Cached.__call__(*args)
CachedCallAlwaysNew(args, build_ok) ==
    CacheMiss(args, ObjId(nextId, 0), CageInit(nextId, args, fs, build_ok))

CachedCall(args, build_ok) ==
    IF CacheHas(cache, args)
    THEN After("none", cache[args], TRUE, cages, units, cache, nextId,
               written)
    ELSE CacheMiss(args, ObjId(nextId, 0),
                   CageInit(nextId, args, fs, build_ok))

\* The comparison operators of two Cage objects.  Cage defines none of
\* __lt__, __le__, __eq__, __ge__, __gt__: == is object.__eq__ (identity) and
\* the others raise TypeError
CageCompare(opr, a, b) ==
    IF opr = "=="
    THEN [err |-> "none", val |-> (a = b)]
    ELSE [err |-> "TypeError", val |-> FALSE]

\* Cage.same_cage(self, other), a chain of `and`
same_cage(self, other) ==
    IF ~PyEq(self.bb, other.bb) THEN [err |-> "none", val |-> FALSE]
    ELSE IF ~PyEq(self.lk, other.lk) THEN [err |-> "none", val |-> FALSE]
    ELSE IF self.topology = Unset \/ other.topology = Unset
    THEN [err |-> "AttributeError", val |-> FALSE]
    ELSE [err |-> "none", val |-> PyEq(self.topology, other.topology)]

-----------------------------------------------------------------------------
(* The inputs. *)

amine_a_mol == <<"a","m","i","n","e","/","a",".","m","o","l">>

aldehyde_b_mol == <<"a","l","d","e","h","y","d","e","/","b",".","m","o","l">>

misc_c_mol == <<"m","i","s","c","/","c",".","m","o","l">>

out1_mol == <<"o","u","t","1",".","m","o","l">>

out2_mol == <<"o","u","t","2",".","m","o","l">>

FourPlusSix == <<"F","o","u","r","P","l","u","s","S","i","x">>

\* Coordinates of an n-atom conformer starting at `base`
Coords(n, base) == [i \in 1..n |-> <<base + i, base, 0 - i>>]

\* The bonds of a chain of n atoms
Chain(n) == {<<i, i + 1>> : i \in 1..(n - 1)}

\* An amine N(H)(H) and an aldehyde C(=O)H, each one match of its pattern
AmineMol == Mol(<<7, 1, 1>>, {<<1, 2>>, <<1, 3>>}, Coords(3, 0))

AldehydeMol == Mol(<<6, 8, 1>>, {<<1, 2>>, <<1, 3>>}, Coords(3, 1))

DefaultFS ==
    (amine_a_mol :> FileContents(TRUE, AmineMol, << <<1, 2, 3>> >>))
    @@ (aldehyde_b_mol :> FileContents(TRUE, AldehydeMol, << <<1, 2, 3>> >>))
    @@ (misc_c_mol :> FileContents(TRUE, AmineMol, << >>))

\* The argument tuples Cage is called with
TestArgs ==
    { << <<"a">>, <<"b">>, <<"t","1">> >> }

StdArgs ==
    { <<amine_a_mol, aldehyde_b_mol, FourPlusSix, out1_mol>>,
      <<amine_a_mol, aldehyde_b_mol, FourPlusSix, out2_mol>>,
      <<amine_a_mol, misc_c_mol, FourPlusSix, out1_mol>> }

CageArgs == TestArgs \cup StdArgs

Operators == {"<", "<=", "==", ">=", ">"}

UnitClasses == {"StructUnit", "BuildingBlock", "Linker"}

LiveCages == refs \cap DOMAIN cages

\* The values 1 and 2 that the tests assign to fitness
Fitnesses == {FitnessScale, 2 * FitnessScale}

-----------------------------------------------------------------------------
(* The operations. *)

InitRest ==
    /\ written = << >>
    /\ units = << >>
    /\ cages = << >>
    /\ cache = NewCache
    /\ cacheWeak = TRUE
    /\ saved = << >>
    /\ resetAt = 0
    /\ refs = {}
    /\ collected = << >>
    /\ nextId = 1
    /\ calls = << >>
    /\ results = << >>
    /\ last = Outcome("init", << >>, 0, "none")

Init ==
    /\ fs = DefaultFS
    /\ InitRest

\* The caller takes the outcome r of Cage(*args) and keeps the object
Returned(args, r) ==
    /\ cages' = r.cages
    /\ units' = r.units
    /\ cache' = r.cache
    /\ nextId' = r.nextId
    /\ written' = r.written
    /\ refs' = IF r.err = "none" THEN refs \cup {r.obj} ELSE refs
    /\ last' = [Outcome("Cage", args, r.obj, r.err) EXCEPT !.hit = r.hit]

\* mol = Cage(*args)
NewCage(args, build_ok) ==
    /\ CacheHas(cache, args) \/ nextId <= MaxObj
    /\ Returned(args, CachedCall(args, build_ok))
    /\ UNCHANGED <<calls, results, fs, cacheWeak, saved, resetAt, collected>>

\* The caller takes the outcome r of cls(prist_mol_file)
ReturnedUnit(cls, prist_mol_file, obj, r) ==
    /\ written' = Overwrite(written, r.out)
    /\ units' = IF r.err = "none" THEN (obj :> r.unit) @@ units ELSE units
    /\ refs' = IF r.err = "none" THEN refs \cup {obj} ELSE refs
    /\ nextId' = IF r.err = "none" THEN nextId + 1 ELSE nextId
    /\ last' = [Outcome(cls, <<prist_mol_file>>,
                        IF r.err = "none" THEN obj ELSE 0, r.err)
                   EXCEPT !.func_grp = r.func_grp]

\* unit = cls(prist_mol_file) for StructUnit and its subclasses, which have
\* no metaclass: type.__call__ makes a new object every time
NewStructUnit(cls, prist_mol_file) ==
    /\ nextId <= MaxObj
    /\ ReturnedUnit(cls, prist_mol_file, ObjId(nextId, 0),
                    StructUnitInit(cls, prist_mol_file, fs))
    /\ UNCHANGED <<calls, results, fs, cages, cache, cacheWeak, saved, resetAt, collected>>

\* mol.fitness = fitness
SetFitness(o, fitness) ==
    /\ o \in LiveCages
    /\ cages' = [cages EXCEPT ![o].fitness = Num(fitness)]
    /\ last' = [Outcome("set_fitness", << >>, o, "none") EXCEPT !.a = o]
    /\ UNCHANGED <<calls, results, fs, written, units, cache, cacheWeak, saved, resetAt,
                   refs, collected, nextId>>

\* a opr b, for two Cage objects
Compare(a, b, opr) ==
    /\ a \in LiveCages
    /\ b \in LiveCages
    /\ LET r == CageCompare(opr, a, b)
       IN  last' = [Outcome("compare", << >>, 0, r.err)
                       EXCEPT !.a = a, !.b = b, !.opr = opr, !.val = r.val]
    /\ UNCHANGED <<calls, results, fs, written, units, cages, cache, cacheWeak, saved,
                   resetAt, refs, collected, nextId>>

\* a.same_cage(b)
SameCage(a, b) ==
    /\ a \in LiveCages
    /\ b \in LiveCages
    /\ LET r == same_cage(cages[a], cages[b])
       IN  last' = [Outcome("same_cage", << >>, 0, r.err)
                       EXCEPT !.a = a, !.b = b, !.val = r.val]
    /\ UNCHANGED <<calls, results, fs, written, units, cages, cache, cacheWeak, saved,
                   resetAt, refs, collected, nextId>>

\* The caller lets go of its reference to o
Drop(o) ==
    /\ o \in refs
    /\ refs' = refs \ {o}
    /\ last' = Outcome("drop", << >>, o, "none")
    /\ UNCHANGED <<calls, results, fs, written, units, cages, cache, cacheWeak, saved,
                   resetAt, collected, nextId>>

\* The garbage collector frees the Cage o, which nothing but weak references
\* refers to (a Cage made by std_init is in a cycle with its topology, so it
\* is freed some time after the last reference goes)
Collect(o) ==
    /\ o \in DOMAIN cages
    /\ ~Reachable(o)
    /\ cages' = [k \in DOMAIN cages \ {o} |-> cages[k]]
    /\ cache' = Evict(cache, o)
    /\ collected' = (o :> cages[o].args) @@ collected
    /\ last' = Outcome("collect", << >>, o, "none")
    /\ UNCHANGED <<calls, results, fs, written, units, cacheWeak, saved, resetAt, refs,
                   nextId>>

ResetKeepingEntries ==
    /\ resetAt = 0
    /\ saved' = cache
    /\ cache' = cache
    /\ cacheWeak' = FALSE
    /\ resetAt' = nextId
    /\ last' = Outcome("reset", << >>, 0, "none")
    /\ UNCHANGED <<calls, results, fs, written, units, cages, refs, collected, nextId>>

\* The harness: og_c = dict(cache); cache = {}
Reset ==
    /\ resetAt = 0
    /\ saved' = cache
    /\ cache' = << >>
    /\ cacheWeak' = FALSE
    /\ resetAt' = nextId
    /\ last' = Outcome("reset", << >>, 0, "none")
    /\ UNCHANGED <<calls, results, fs, written, units, cages, refs, collected, nextId>>

\* The harness: cache = og_c.  saved keeps what was restored.
Restore ==
    /\ resetAt # 0
    /\ cache' = saved
    /\ cacheWeak' = FALSE
    /\ resetAt' = 0
    /\ last' = Outcome("restore", << >>, 0, "none")
    /\ UNCHANGED <<calls, results, fs, written, units, cages, saved, refs, collected,
                   nextId>>

Next ==
    \/ \E args \in CageArgs, build_ok \in BOOLEAN : NewCage(args, build_ok)
    \/ \E o \in LiveCages, fitness \in Fitnesses : SetFitness(o, fitness)
    \/ \E a \in LiveCages, b \in LiveCages, opr \in Operators :
          Compare(a, b, opr)
    \/ \E a \in LiveCages, b \in LiveCages : SameCage(a, b)
    \/ \E o \in refs : Drop(o)
    \/ \E o \in DOMAIN cages : Collect(o)

Spec == Init /\ [][Next]_vars

\* Constructions and collections with the harness's reset and restore
NextReset ==
    \/ \E args \in CageArgs, build_ok \in BOOLEAN : NewCage(args, build_ok)
    \/ \E o \in refs : Drop(o)
    \/ \E o \in DOMAIN cages : Collect(o)
    \/ Reset
    \/ Restore

SpecReset == Init /\ [][NextReset]_vars

-----------------------------------------------------------------------------
(* Structural units alone: one construction from a file whose name, atoms  *)
(* and substructure matches are drawn from bounded sets.                   *)

\* Atomic numbers of H and N
Elements == {1, 7}

Mols ==
    UNION {{Mol(atoms, Chain(n), Coords(n, 0)) : atoms \in [1..n -> Elements]}
           : n \in 1..MaxAtoms}

\* The results GetSubstructMatches can give on a molecule of n atoms: up to
\* MaxMatches tuples of up to MaxMatchLen atom ids
MatchTuples(n) == UNION {[1..k -> 1..n] : k \in 1..MaxMatchLen}

Matches(n) == UNION {[1..k -> MatchTuples(n)] : k \in 0..MaxMatches}

\* The pieces file names are put together from
Parts ==
    { <<"a","m","i","n","e">>, <<"a","l","d","e","h","y","d","e">>,
      <<"t","h","i","o","l">>, <<"a","m">>, <<"i","n","e">>, <<"/">>,
      <<"x">> }

RECURSIVE Names(_)
\* The concatenations of 1..k pieces
Names(k) ==
    IF k = 0 THEN {<< >>}
    ELSE LET shorter == Names(k - 1)
         IN  shorter \cup {n \o p : n \in shorter, p \in Parts}

UnitInit ==
    /\ \/ \E mol \in Mols : \E matches \in Matches(Len(mol.atoms)) :
            fs = (amine_a_mol :> FileContents(TRUE, mol, matches))
       \/ \E name \in Names(MaxParts) \ {<< >>} :
            fs = (name :> FileContents(TRUE, AmineMol, << <<1, 2, 3>> >>))
       \/ fs = (amine_a_mol :> FileContents(FALSE, NoMol, << >>))
    /\ InitRest

\* The one construction
OneStructUnit(cls, prist_mol_file) ==
    /\ nextId = 1
    /\ last.op = "init"
    /\ NewStructUnit(cls, prist_mol_file)

NextUnit == \E cls \in UnitClasses, f \in DOMAIN fs : OneStructUnit(cls, f)

SpecUnit == UnitInit /\ [][NextUnit]_vars

-----------------------------------------------------------------------------
(* Structural units alone: repeated constructions from the default files.  *)

NextUnits ==
    \/ \E cls \in UnitClasses, f \in DOMAIN fs : NewStructUnit(cls, f)
    \/ \E o \in refs : Drop(o)

SpecUnits == Init /\ [][NextUnits]_vars

-----------------------------------------------------------------------------
(* The properties. *)

\* The (building block, linker, topology) part of an argument tuple
Triple(args) == SubSeq(args, 1, 3)

\* The last operation was a call Cage(*args) that returned an object
CageReturned == last.op = "Cage" /\ last.err = "none"

\* C1, as stated: two constructions of a Cage whose (building block, linker,
\* topology) triples are equal give the same object while the first is held.
C1_EqualTriplesSameObject ==
    /\ \A o1, o2 \in LiveCages :
          Triple(cages[o1].args) = Triple(cages[o2].args) => o1 = o2
    /\ CageReturned =>
          \A o \in LiveCages :
              Triple(cages[o].args) = Triple(last.args) => o = last.obj

\* C2, as stated: two structural units constructed from the same source,
\* both held, are the same object.
C2_UnitsAreCached ==
    \A u1, u2 \in refs \cap DOMAIN units :
        /\ units[u1].cls = units[u2].cls
        /\ units[u1].prist_mol_file = units[u2].prist_mol_file
        => u1 = u2

\* The identity of what a Cage holds as building block or linker: the string
\* itself, or the source of the structural unit
UnitIdentity(v) == IF v.t = "obj" THEN units[v.id].prist_mol_file ELSE v.s

\* The identity of what a Cage holds as topology: the string, or the class
TopologyIdentity(v) == v.s

SameComposition(a, b) ==
    /\ UnitIdentity(a.bb) = UnitIdentity(b.bb)
    /\ UnitIdentity(a.lk) = UnitIdentity(b.lk)
    /\ TopologyIdentity(a.topology) = TopologyIdentity(b.topology)

\* C3, as stated: a.same_cage(b) is true exactly when the building block,
\* linker and topology identities of a and b are equal.
C3_SameIffSameComposition ==
    last.op = "same_cage" =>
        /\ last.err = "none"
        /\ last.val = SameComposition(cages[last.a], cages[last.b])

\* opr applied to two fitness values
FitnessOrder(opr, x, y) ==
    CASE opr = "<"  -> x < y
      [] opr = "<=" -> x <= y
      [] opr = "==" -> x = y
      [] opr = ">=" -> x >= y
      [] opr = ">"  -> x > y

Scored(o) == cages[o].fitness.t = "num"

\* C4, as stated: comparing two Cages that both have a fitness gives what
\* the operator gives on the two fitness values.
C4_OrderingIsByFitness ==
    (last.op = "compare" /\ Scored(last.a) /\ Scored(last.b)) =>
        /\ last.err = "none"
        /\ last.val = FitnessOrder(last.opr, cages[last.a].fitness.id,
                                   cages[last.b].fitness.id)

\* C5, as stated: comparing two Cages of which one has no fitness fails with
\* UnscoredComparisonError, and changes neither the Cages nor the cache.
C5_UnscoredComparisonFails ==
    [][(last'.op = "compare" /\ (~Scored(last'.a) \/ ~Scored(last'.b))) =>
          /\ last'.err = "UnscoredComparisonError"
          /\ UNCHANGED <<cages, units, cache, refs>>]_vars

\* The last operation was a construction of a structural unit
UnitAttempted == last.op \in UnitClasses

\* ... and it returned a unit
UnitReturned == UnitAttempted /\ last.err = "none"

\* The atom ids that occur in some match
MatchedIds(matches) ==
    {id \in 1..MaxAtoms :
        \E m \in 1..Len(matches) :
            \E k \in 1..Len(matches[m]) : matches[m][k] = id}

\* C6: in a constructed unit with functional group G the heavy molecule has
\* G's heavy element at every atom id that occurs in a match and has G's
\* target element in the raw molecule, and the raw element everywhere else;
\* it has the raw molecule's atom count and bonds; the raw molecule is the
\* one that was read.
C6_HeavySubstitution ==
    UnitReturned =>
        LET u       == units[last.obj]
            raw     == fs[last.args[1]].mol
            G       == functional_group_list[u.func_grp]
            matched == MatchedIds(fs[last.args[1]].matches)
        IN  /\ u.prist_mol = raw
            /\ Len(u.heavy_mol.atoms) = Len(raw.atoms)
            /\ Cardinality(u.heavy_mol.bonds) = Cardinality(raw.bonds)
            /\ u.heavy_mol.bonds = raw.bonds
            /\ \A i \in 1..Len(raw.atoms) :
                  u.heavy_mol.atoms[i] =
                      IF i \in matched /\ raw.atoms[i] = G.target_atomic_num
                      THEN G.heavy_atomic_num
                      ELSE raw.atoms[i]

\* A unit in which one matched atom was substituted and another matched atom,
\* not of the target element, was not
C6_Witness ==
    /\ UnitReturned
    /\ LET u       == units[last.obj]
           G       == functional_group_list[u.func_grp]
           matched == MatchedIds(fs[last.args[1]].matches)
       IN  /\ \E i \in matched :
                 /\ u.prist_mol.atoms[i] = G.target_atomic_num
                 /\ u.heavy_mol.atoms[i] = G.heavy_atomic_num
           /\ \E j \in matched :
                 /\ u.prist_mol.atoms[j] # G.target_atomic_num
                 /\ u.heavy_mol.atoms[j] = u.prist_mol.atoms[j]

\* s has sub as a contiguous piece
Contains(s, sub) ==
    \E i \in 1..(Len(s) - Len(sub) + 1) : SubSeq(s, i, i + Len(sub) - 1) = sub

\* No name of the registry occurs in id
NamesNoGroup(id) ==
    \A i \in 1..Len(functional_group_list) :
        ~Contains(id, functional_group_list[i].name)

\* C7, as stated: constructing a unit from a readable source whose name
\* holds no functional group name completes, with func_grp None and the
\* heavy molecule equal to the raw one.
C7_NoGroupIsNotFatal ==
    (/\ UnitAttempted
     /\ fs[last.args[1]].parses
     /\ NamesNoGroup(last.args[1])) =>
        /\ last.err = "none"
        /\ units[last.obj].func_grp = NoGroup
        /\ units[last.obj].heavy_mol = units[last.obj].prist_mol

\* C8: the functional group resolved for a source name is the registry's
\* first entry whose name occurs in it, and None exactly when no entry's name
\* occurs in it; a constructed unit has that group.
C8_FirstRegistryMatch ==
    (UnitAttempted /\ last.err # "ParseError") =>
        LET id == last.args[1]
            g  == last.func_grp
        IN  /\ (g = NoGroup) <=> NamesNoGroup(id)
            /\ g # NoGroup =>
                  /\ g \in 1..Len(functional_group_list)
                  /\ Contains(id, functional_group_list[g].name)
                  /\ \A j \in 1..(g - 1) :
                        ~Contains(id, functional_group_list[j].name)
            /\ last.err = "none" => units[last.obj].func_grp = g

\* A unit whose source name has "amine" and then "aldehyde" in it, resolved
\* to aldehyde, the earlier entry of the registry
C8_Witness ==
    /\ UnitReturned
    /\ last.args[1] = functional_group_list[7].name
                         \o functional_group_list[1].name
    /\ units[last.obj].func_grp = 1

\* The cache holds no collected object and nothing but the caller keeps a
\* Cage from being collected
CacheIsWeak ==
    /\ \A k \in DOMAIN cache :
          cache[k] \in DOMAIN cages /\ cache[k] \notin DOMAIN collected
    /\ \A o \in DOMAIN cages : o \notin refs => ENABLED Collect(o)

\* The object a construction returned is alive and registered under the
\* arguments of the call
ReturnedIsLive ==
    CageReturned =>
        /\ last.obj \in DOMAIN cages
        /\ last.obj \notin DOMAIN collected
        /\ last.args \in DOMAIN cache
        /\ cache[last.args] = last.obj

\* C9: the cache holds its objects weakly: a Cage that the caller no longer
\* refers to can be collected and its entry goes with it; a construction
\* whose arguments have no entry runs the initializer and returns and
\* registers an object that did not exist before; no construction returns a
\* collected object.
C9_WeakRegistry ==
    [][/\ CacheIsWeak'
       /\ ReturnedIsLive'
       /\ (last'.op = "Cage" /\ last'.err = "none"
              /\ last'.args \notin DOMAIN cache) =>
             /\ ~last'.hit
             /\ last'.obj \notin DOMAIN cages
             /\ last'.obj \notin DOMAIN collected]_vars

\* A construction that made a new object for arguments whose earlier object
\* was collected
C9_Witness ==
    /\ CageReturned
    /\ ~last.hit
    /\ cache[last.args] = last.obj
    /\ \E o \in DOMAIN collected :
          collected[o] = last.args /\ o # last.obj

\* Between the reset and the restore, a construction returns an object made
\* after the reset; the objects of the saved cache stay alive
InResetWindow ==
    resetAt # 0 =>
        /\ Range(saved) \subseteq DOMAIN cages
        /\ CageReturned =>
              /\ last.obj \notin Range(saved)
              /\ last.obj >= ObjId(resetAt, 0)
              /\ \A o \in DOMAIN cages \cup DOMAIN collected :
                    o < ObjId(resetAt, 0) => o # last.obj

\* Once the saved cache is back, a construction whose arguments it holds
\* returns the object it holds
AfterRestore ==
    (resetAt = 0 /\ CageReturned /\ last.args \in DOMAIN saved) =>
        /\ last.hit
        /\ last.obj = saved[last.args]

\* C10: after the cache is reset to empty, a construction from arguments
\* that were registered before the reset returns a new object, distinct
\* from every object made before the reset; the reset and the restore change
\* no object and no reference of the caller; after the restore a
\* construction from such arguments returns the object of before the reset.
C10_ResetAndRestore ==
    [][/\ InResetWindow'
       /\ AfterRestore'
       /\ (resetAt' # resetAt) =>
             /\ cages' = cages
             /\ units' = units
             /\ refs' = refs
       /\ (resetAt # 0 /\ last'.op = "Cage" /\ last'.err = "none"
              /\ last'.args \in DOMAIN saved
              /\ last'.args \notin DOMAIN cache) =>
             /\ ~last'.hit
             /\ last'.obj \notin DOMAIN cages]_vars

\* After the restore a construction returns the object of before the reset
\* while the object made from the same arguments during the reset is alive
C10_Witness ==
    /\ resetAt = 0
    /\ CageReturned
    /\ last.hit
    /\ last.args \in DOMAIN saved
    /\ last.obj = saved[last.args]
    /\ \E o \in LiveCages :
          o # last.obj /\ cages[o].args = last.args

-----------------------------------------------------------------------------
(* Loading a persisted record.  Molecule.load is not part of molecular.py; *)
(* it is modelled from the specification: the record carries a key, the    *)
(* fitness (possibly None) and the building block, linker and topology     *)
(* identities; loading goes through the cache of the class.                *)

\* The object a record with this key and fitness is reconstructed as
LoadedCage(key, fitness) ==
    [NoCage EXCEPT !.args = key, !.bb = Str(key[1]), !.lk = Str(key[2]),
                   !.topology = Str(key[3]), !.fitness = fitness]

\* The registration of the object obj reconstructed from a record
LoadMiss(key, obj, cage) ==
    After("none", obj, FALSE, (obj :> cage) @@ cages, units,
          CacheSet(cache, key, obj), nextId + 1, written)

\* Molecule.load(record)
LoadCall(key, fitness) ==
    IF CacheHas(cache, key)
    THEN After("none", cache[key], TRUE, cages, units, cache, nextId,
               written)
    ELSE LoadMiss(key, ObjId(nextId, 0), LoadedCage(key, fitness))

\* The caller takes the outcome r of Molecule.load and keeps the object
LoadReturned(key, r) ==
    /\ cages' = r.cages
    /\ units' = r.units
    /\ cache' = r.cache
    /\ nextId' = r.nextId
    /\ written' = r.written
    /\ refs' = refs \cup {r.obj}
    /\ last' = [Outcome("load", key, r.obj, r.err) EXCEPT !.hit = r.hit]

\* mol = Molecule.load(record)
Load(key, fitness) ==
    /\ CacheHas(cache, key) \/ nextId <= MaxObj
    /\ LoadReturned(key, LoadCall(key, fitness))
    /\ UNCHANGED <<calls, results, fs, cacheWeak, saved, resetAt, collected>>

\* The fitness a record can hold: None or a number
RecordFitnesses == {Unset, Num(FitnessScale)}

NextJson ==
    \/ \E args \in CageArgs, build_ok \in BOOLEAN : NewCage(args, build_ok)
    \/ \E key \in CageArgs, fitness \in RecordFitnesses : Load(key, fitness)
    \/ \E o \in refs : Drop(o)
    \/ \E o \in DOMAIN cages : Collect(o)

SpecJson == Init /\ [][NextJson]_vars

\* The last operation gave the caller a Cage, by construction or by loading
MoleculeReturned == last.op \in {"Cage", "load"} /\ last.err = "none"

\* Every registered object is registered under its own key
KeyedByOwnKey ==
    \A k \in DOMAIN cache :
        cache[k] \in DOMAIN cages /\ cages[cache[k]].args = k

-----------------------------------------------------------------------------
(* Coordinates of structural units: shift_heavy_mol and get_heavy_coords.  *)
(* Coordinates are integers here; the code adds floats, which for equal    *)
(* operands gives equal sums.                                              *)

\* new_x, new_y, new_z: the position shifted by x, y and z
ShiftNoZ(position, x, y, z) ==
    <<position[1] + x, position[2] + y, position[3]>>

ShiftPosition(position, x, y, z) ==
    <<position[1] + x, position[2] + y, position[3] + z>>

RECURSIVE ShiftAtoms(_, _, _, _, _)
\* for atom in self.heavy_mol.GetAtoms(): conformer.SetAtomPosition(...),
\* for the atoms with ids atom_id .. number of atoms
ShiftAtoms(conformer, atom_id, x, y, z) ==
    IF atom_id > Len(conformer) THEN conformer
    ELSE ShiftAtoms(
            [conformer EXCEPT
                ![atom_id] = ShiftPosition(conformer[atom_id], x, y, z)],
            atom_id + 1, x, y, z)

\* new_heavy: a deepcopy of heavy_mol whose only conformer is `conformer`
NewHeavy(heavy_mol, conformer) == [heavy_mol EXCEPT !.coords = conformer]

\* shift_heavy_mol working on heavy_mol's own conformer instead of a copy
ShiftInPlace(self, x, y, z) ==
    [self |-> [self EXCEPT
                  !.heavy_mol.coords =
                      ShiftAtoms(self.heavy_mol.coords, 1, x, y, z)],
     ret  |-> NewHeavy(self.heavy_mol,
                       ShiftAtoms(self.heavy_mol.coords, 1, x, y, z))]

\* StructUnit.shift_heavy_mol(x, y, z): the unit as the call leaves it and
\* the molecule it returns.  conformer is a copy (chem.Conformer(...)) and
\* new_heavy a deepcopy, so nothing of self is written
shift_heavy_mol(self, x, y, z) ==
    [self |-> self,
     ret  |-> NewHeavy(self.heavy_mol,
                       ShiftAtoms(self.heavy_mol.coords, 1, x, y, z))]

RECURSIVE YieldReversed(_, _)
YieldReversed(conformer, atom_id) ==
    IF atom_id > Len(conformer) THEN << >>
    ELSE YieldReversed(conformer, atom_id + 1) \o <<conformer[atom_id]>>

RECURSIVE YieldPositions(_, _)
\* for atom in self.heavy_mol.GetAtoms(): yield x, y, z, from atom_id on
YieldPositions(conformer, atom_id) ==
    IF atom_id > Len(conformer) THEN << >>
    ELSE <<conformer[atom_id]>> \o YieldPositions(conformer, atom_id + 1)

\* list(StructUnit.get_heavy_coords())
get_heavy_coords(self) == YieldPositions(self.heavy_mol.coords, 1)

\* What a call returned: the operation, the unit, the arguments, the value
Result(op, unit, args, val) ==
    [op |-> op, unit |-> unit, args |-> args, val |-> val]

\* The offsets shift_heavy_mol is called with
Offsets ==
    {<<0, 0, 0>>, <<10, 10, 10>>} \cup {<<d, 0, 0 - d>> : d \in 1..MaxShift}

\* The caller takes the outcome r of u.shift_heavy_mol(*offset)
Shifted(u, offset, r) ==
    /\ units' = [units EXCEPT ![u] = r.self]
    /\ results' = Append(results, Result("shift_heavy_mol", u, offset, r.ret))
    /\ last' = Outcome("shift_heavy_mol", offset, u, "none")

\* mol = u.shift_heavy_mol(*offset)
ShiftHeavyMol(u, offset) ==
    /\ u \in refs \cap DOMAIN units
    /\ Len(results) < MaxCalls
    /\ Shifted(u, offset,
               shift_heavy_mol(units[u], offset[1], offset[2], offset[3]))
    /\ UNCHANGED <<calls, fs, written, cages, cache, cacheWeak, saved, resetAt,
                   refs, collected, nextId>>

\* coords = list(u.get_heavy_coords())
GetHeavyCoords(u) ==
    /\ u \in refs \cap DOMAIN units
    /\ Len(results) < MaxCalls
    /\ results' = Append(results, Result("get_heavy_coords", u, << >>,
                                         get_heavy_coords(units[u])))
    /\ last' = Outcome("get_heavy_coords", << >>, u, "none")
    /\ UNCHANGED <<calls, fs, written, units, cages, cache, cacheWeak, saved,
                   resetAt, refs, collected, nextId>>

\* One file: a chain of up to MaxAtoms nitrogen and hydrogen atoms with one
\* match of the amine pattern
ShiftInit ==
    /\ \E n \in 1..MaxAtoms :
          fs = (amine_a_mol :>
                   FileContents(TRUE,
                                Mol([i \in 1..n |-> IF i = 1 THEN 7 ELSE 1],
                                    Chain(n), Coords(n, 0)),
                                << <<1>> >>))
    /\ InitRest

NextShift ==
    \/ \E cls \in UnitClasses, f \in DOMAIN fs : OneStructUnit(cls, f)
    \/ \E u \in DOMAIN units, offset \in Offsets : ShiftHeavyMol(u, offset)
    \/ \E u \in DOMAIN units : GetHeavyCoords(u)

SpecShift == ShiftInit /\ [][NextShift]_vars

\* The results of shift_heavy_mol among the results the caller holds
ShiftResults == {i \in 1..Len(results) : results[i].op = "shift_heavy_mol"}

\* The results of get_heavy_coords among the results the caller holds
CoordResults == {i \in 1..Len(results) : results[i].op = "get_heavy_coords"}

\* Every unit is as its construction from its file left it
UnitsAsConstructed ==
    \A u \in DOMAIN units :
        units[u] = StructUnitInit(units[u].cls, units[u].prist_mol_file,
                                  fs).unit

\* Calls with equal arguments on one unit returned equal molecules
EqualShiftsEqualResults ==
    \A i, j \in ShiftResults :
        (results[i].unit = results[j].unit
            /\ results[i].args = results[j].args) =>
        results[i].val = results[j].val

\* C12: a call of shift_heavy_mol changes no attribute of the unit (heavy
\* molecule with its coordinates, raw molecule, file names) and no earlier
\* result; after any calls every unit is as construction left it, and two
\* calls with equal arguments on a unit returned equal coordinates.
C12_ShiftLeavesUnitUnchanged ==
    /\ [](UnitsAsConstructed /\ EqualShiftsEqualResults)
    /\ [][last'.op = "shift_heavy_mol" =>
             /\ units' = units
             /\ written' = written
             /\ Len(results') = Len(results) + 1
             /\ SubSeq(results', 1, Len(results)) = results
             /\ get_heavy_coords(units'[last'.obj])
                    = get_heavy_coords(units[last'.obj])]_vars

\* Two calls with the same non-zero offset on one unit, whose results differ
\* from the unit's own coordinates
C12_Witness ==
    /\ Len(results) = 2
    /\ ShiftResults = {1, 2}
    /\ results[1].unit = results[2].unit
    /\ results[1].args = <<10, 10, 10>>
    /\ results[2].args = <<10, 10, 10>>
    /\ results[1].val.coords = results[2].val.coords
    /\ results[1].val.coords # units[results[1].unit].heavy_mol.coords

\* C13: the molecule shift_heavy_mol returned has the atoms and bonds of the
\* heavy molecule and, atom by atom, the coordinates get_heavy_coords
\* yields plus the offset; with offset (0, 0, 0) they are the coordinates
\* get_heavy_coords yields; get_heavy_coords yields one triple per atom, in
\* the order of the atom ids.
C13_ShiftAddsOffset ==
    /\ \A r \in ShiftResults :
          /\ results[r].val.atoms = units[results[r].unit].heavy_mol.atoms
          /\ results[r].val.bonds = units[results[r].unit].heavy_mol.bonds
          /\ Len(results[r].val.coords)
                = Len(units[results[r].unit].heavy_mol.atoms)
          /\ \A i \in 1..Len(results[r].val.coords) : \A k \in 1..3 :
                results[r].val.coords[i][k]
                    = get_heavy_coords(units[results[r].unit])[i][k]
                         + results[r].args[k]
          /\ results[r].args = <<0, 0, 0>> =>
                results[r].val.coords
                    = get_heavy_coords(units[results[r].unit])
    /\ \A c \in CoordResults :
          /\ Len(results[c].val)
                = Len(units[results[c].unit].heavy_mol.atoms)
          /\ \A i \in 1..Len(results[c].val) :
                results[c].val[i]
                    = units[results[c].unit].heavy_mol.coords[i]

\* On a unit of several atoms: a shift by a non-zero offset, or a shift by
\* (0, 0, 0) next to the coordinates get_heavy_coords yielded
C13_Witness ==
    /\ Len(results) = 2
    /\ results[1].unit = results[2].unit
    /\ Len(units[results[1].unit].heavy_mol.atoms) > 1
    /\ results[1].op = "get_heavy_coords"
    /\ results[2].op = "shift_heavy_mol"
    /\ \/ /\ results[2].args = <<0, 0, 0>>
          /\ results[2].val.coords = results[1].val
       \/ /\ results[2].args = <<1, 0, 0 - 1>>
          /\ results[2].val.coords # results[1].val

-----------------------------------------------------------------------------
(* Constructions that fail: a file that cannot be parsed, a file that is   *)
(* not there, a file without a functional group, a topology whose          *)
(* build_cage raises.                                                      *)

bad_mol == <<"a","m","i","n","e","/","b","a","d",".","m","o","l">>

gone_mol == <<"a","m","i","n","e","/","g","o","n","e",".","m","o","l">>

\* The default files and one that MolFromMolFile cannot parse
FailFS == (bad_mol :> FileContents(FALSE, NoMol, << >>)) @@ DefaultFS

FailArgs ==
    { <<amine_a_mol, aldehyde_b_mol, FourPlusSix, out1_mol>>,
      <<amine_a_mol, aldehyde_b_mol, FourPlusSix, out2_mol>>,
      <<amine_a_mol, bad_mol, FourPlusSix, out1_mol>>,
      <<gone_mol, aldehyde_b_mol, FourPlusSix, out1_mol>>,
      <<amine_a_mol, misc_c_mol, FourPlusSix, out2_mol>> }

FailInit ==
    /\ fs = FailFS
    /\ InitRest

NextFail ==
    \/ \E args \in FailArgs, build_ok \in BOOLEAN : NewCage(args, build_ok)
    \/ \E o \in LiveCages, fitness \in Fitnesses : SetFitness(o, fitness)
    \/ \E o \in refs : Drop(o)
    \/ \E o \in DOMAIN cages : Collect(o)

SpecFail == FailInit /\ [][NextFail]_vars

\* The last operation was a call Cage(*args) that raised
CageFailed == last.op = "Cage" /\ last.err # "none"

\* MolFromMolFile cannot give a molecule for this file
Unreadable(f) == f \notin DOMAIN fs \/ ~fs[f].parses

\* The Cage o has everything std_init assigns
FullyBuilt(o) ==
    /\ o \in DOMAIN cages
    /\ cages[o].bb.t = "obj" /\ cages[o].bb.id \in DOMAIN units
    /\ cages[o].lk.t = "obj" /\ cages[o].lk.id \in DOMAIN units
    /\ cages[o].topology.t = "topo"
    /\ cages[o].prist_mol_file.t = "str"
    /\ cages[o].heavy_mol_file.t = "str"

\* C14: a construction that raises gives the caller the exception and
\* leaves the cache and the objects as they were; no entry is registered
\* for its arguments, every registered object is fully built, and the next
\* construction with the same arguments runs the initializer again.
C14_FailureLeavesCacheUnchanged ==
    /\ [](/\ \A k \in DOMAIN cache : FullyBuilt(cache[k])
          /\ CageReturned => FullyBuilt(last.obj)
          /\ CageFailed =>
                /\ last.obj = 0
                /\ last.args \notin DOMAIN cache
          /\ (last.op = "Cage"
                 /\ (Unreadable(last.args[1]) \/ Unreadable(last.args[2])))
                => last.err = "ParseError")
    /\ [][/\ (last'.op = "Cage" /\ last'.err # "none") =>
                /\ cache' = cache
                /\ cages' = cages
                /\ units' = units
                /\ refs' = refs
          /\ (CageFailed /\ last'.op = "Cage" /\ last'.args = last.args
                 /\ last'.err = "none") =>
                /\ ~last'.hit
                /\ last'.obj \notin DOMAIN cages]_vars

\* A failed construction in the presence of a registered object ...
C14_Witness ==
    /\ CageFailed
    /\ last.err \in {"ParseError", "AssemblyError"}
    /\ \E k \in DOMAIN cache : cache[k] \in LiveCages
    /\ last.args \notin DOMAIN cache

-----------------------------------------------------------------------------
(* Cached.__call__ line by line, for callers that run it at the same time  *)
(* (threads) and for the garbage collector running in between its lines.   *)
(* Nothing in Cached.__call__ takes a lock.                                *)

\* The callers
Callers == {"c1", "c2"}

\* The arguments they call Cage with: strings, and files (whose Cage is in a
\* cycle with its topology and is collected by the cycle collector)
RaceArgs ==
    TestArgs \cup {<<amine_a_mol, aldehyde_b_mol, FourPlusSix, out1_mol>>}

\* A call under way: the line of Cached.__call__ it is about to run
Call(line, args, obj, err) ==
    [line |-> line, args |-> args, obj |-> obj, err |-> err]

\* Line 28: if args in self.__cache.keys()
TestMembership(c, args) ==
    /\ c \notin DOMAIN calls
    /\ calls' = (c :> Call(IF CacheHas(cache, args) THEN 29 ELSE 31,
                           args, 0, "none")) @@ calls
    /\ UNCHANGED <<fs, written, units, cages, cache, cacheWeak, saved,
                   resetAt, refs, collected, nextId, results, last>>

\* Line 29: return self.__cache[args], which raises KeyError when the entry
\* is gone
Fetch(c) ==
    /\ c \in DOMAIN calls
    /\ calls[c].line = 29
    /\ IF CacheHas(cache, calls[c].args)
       THEN /\ calls' = [calls EXCEPT ![c].line = 34,
                                      ![c].obj = cache[calls[c].args]]
            /\ refs' = refs \cup {cache[calls[c].args]}
            /\ last' = [Outcome("Cage", calls[c].args,
                                cache[calls[c].args], "none")
                           EXCEPT !.hit = TRUE]
       ELSE /\ calls' = [calls EXCEPT ![c].line = 34,
                                      ![c].err = "KeyError"]
            /\ refs' = refs
            /\ last' = Outcome("Cage", calls[c].args, 0, "KeyError")
    /\ UNCHANGED <<fs, written, units, cages, cache, cacheWeak, saved,
                   resetAt, collected, nextId, results>>

\* The caller c has the new object obj, r being the outcome of __init__
Constructed(c, obj, r) ==
    /\ calls' = [calls EXCEPT ![c].line = IF r.err = "none" THEN 32 ELSE 34,
                              ![c].obj = IF r.err = "none" THEN obj ELSE 0,
                              ![c].err = r.err]
    /\ cages' = IF r.err = "none" THEN (obj :> r.cage) @@ cages ELSE cages
    /\ units' = IF r.err = "none" THEN r.made @@ units ELSE units
    /\ nextId' = IF r.err = "none" THEN nextId + 1 ELSE nextId
    /\ written' = Overwrite(written, r.out)

\* Line 31: obj = super().__call__(*args)
Construct(c) ==
    /\ c \in DOMAIN calls
    /\ calls[c].line = 31
    /\ nextId <= MaxObj
    /\ Constructed(c, ObjId(nextId, 0),
                   CageInit(nextId, calls[c].args, fs, TRUE))
    /\ UNCHANGED <<fs, cache, cacheWeak, saved, resetAt, refs, collected,
                   results, last>>

\* Lines 32-33: self.__cache[args] = obj; return obj
Register(c) ==
    /\ c \in DOMAIN calls
    /\ calls[c].line = 32
    /\ cache' = CacheSet(cache, calls[c].args, calls[c].obj)
    /\ calls' = [calls EXCEPT ![c].line = 34]
    /\ refs' = refs \cup {calls[c].obj}
    /\ last' = Outcome("Cage", calls[c].args, calls[c].obj, "none")
    /\ UNCHANGED <<fs, written, units, cages, cacheWeak, saved, resetAt,
                   collected, nextId, results>>

NextRace ==
    \/ \E c \in Callers, args \in RaceArgs : TestMembership(c, args)
    \/ \E c \in Callers : Fetch(c)
    \/ \E c \in Callers : Construct(c)
    \/ \E c \in Callers : Register(c)
    \/ \E o \in refs : Drop(o)
    \/ \E o \in DOMAIN cages : Collect(o)

SpecRace == Init /\ [][NextRace]_vars

\* The call of c has returned or raised
Finished(c) == c \in DOMAIN calls /\ calls[c].line = 34

\* C15, as stated: two calls with the same arguments, however their lines
\* interleave, do not return two distinct objects.
C15_AtomicConstructAndRegister ==
    \A c1, c2 \in Callers :
        (/\ Finished(c1) /\ Finished(c2)
         /\ calls[c1].args = calls[c2].args
         /\ calls[c1].err = "none" /\ calls[c2].err = "none"
         /\ calls[c1].obj \in LiveCages /\ calls[c2].obj \in LiveCages)
        => calls[c1].obj = calls[c2].obj

\* C16, as stated: a call during which the registered object is collected
\* still returns, without error, a live object that is registered under its
\* arguments.
C16_CollectionDoesNotRace ==
    [][\A c \in Callers :
          (c \in DOMAIN calls /\ calls[c].line # 34 /\ calls'[c].line = 34)
          => /\ calls'[c].err = "none"
             /\ calls'[c].obj \in DOMAIN cages'
             /\ calls'[c].args \in DOMAIN cache'
             /\ cache'[calls'[c].args] = calls'[c].obj]_vars

\* C17: a construction whose arguments are registered returns the
\* registered object and runs no initializer: no object is made or changed,
\* no file is written, and the fitness assigned to the object since its
\* construction is what the returned object has; assigning fitness does not
\* change what the arguments are registered to.
C17_HitDoesNotReinitialize ==
    [][/\ (last'.op = "Cage" /\ last'.args \in DOMAIN cache) =>
             /\ last'.err = "none"
             /\ last'.hit
             /\ last'.obj = cache[last'.args]
       /\ (last'.op = "Cage" /\ last'.err = "none" /\ last'.hit) =>
             /\ last'.obj = cache[last'.args]
             /\ cages' = cages
             /\ units' = units
             /\ written' = written
             /\ nextId' = nextId
             /\ cache' = cache
             /\ cages'[last'.obj].fitness = cages[last'.obj].fitness
       /\ last'.op = "set_fitness" => cache' = cache]_vars

\* A construction from files returns the registered object, which has the
\* fitness it was assigned after its construction
C17_Witness ==
    /\ CageReturned
    /\ last.hit
    /\ Len(last.args) = 4
    /\ Scored(last.obj)
    /\ cages[last.obj].bb.t = "obj"

====
